---- MODULE Spec2Model ----
(***************************************************************************)
(* StewpotScraper (src/webscraping.py): one browser session walks the      *)
(* paginated events panel, opens every event card, extracts four fields    *)
(* and appends one record per card to events_data.                         *)
(*                                                                         *)
(* The web site is the environment.  Its panel layout (number of panel     *)
(* pages, cards per page) is fixed in Init; the content of a detail page   *)
(* and of an info page is read when the browser gets there.                *)
(***************************************************************************)
EXTENDS Integers, Sequences, FiniteSets, TLC

VARIABLES site, pc, browser, history, events_data, curr_event_dict,
          curr_event_soup, events_panel_soup, events, idx, partial,
          error, returned, panelsScraped, fnOut

vars == <<site, pc, browser, history, events_data, curr_event_dict,
          curr_event_soup, events_panel_soup, events, idx, partial,
          error, returned, panelsScraped, fnOut>>

(***************************************************************************)
(* Bounds of the modelled site and of the extractor inputs.                *)
(***************************************************************************)
MaxPages == 3
MaxCards == 2
MaxEvents == 3
MaxRows == 2
MaxLines == 3

\* The page index of the next-page link '/need/index/12'.
NextPageIndex == 12

EventIds == {1, 2}

(***************************************************************************)
(* Sequences helpers.                                                      *)
(***************************************************************************)
SeqsUpTo(S, n) == UNION {[1..k -> S] : k \in 0..n}

RECURSIVE SumLen(_, _)
SumLen(f, k) == IF k = 0 THEN 0 ELSE Len(f[k]) + SumLen(f, k - 1)

RECURSIVE ConcatPages(_, _)
\* the cards of the panel pages listed in ps, in that order
ConcatPages(cards, ps) ==
    IF ps = <<>> THEN <<>>
    ELSE cards[Head(ps)] \o ConcatPages(cards, Tail(ps))

IsPrefix(s, t) == Len(s) <= Len(t) /\ SubSeq(t, 1, Len(s)) = s

(***************************************************************************)
(* Python values.                                                          *)
(***************************************************************************)
None == [tag |-> "None", s |-> "", items |-> <<>>]
Str(x) == [tag |-> "str", s |-> x, items |-> <<>>]
List(xs) == [tag |-> "list", s |-> "", items |-> xs]
\* the outcome of a call: a returned value or a raised exception
Ret(v) == [ok |-> TRUE, val |-> v, exc |-> ""]
Raise(e) == [ok |-> FALSE, val |-> None, exc |-> e]

(***************************************************************************)
(* str.strip() and str.split() on a text given as a sequence of pieces     *)
(* (words and whitespace runs, or lines of which some are blank).          *)
(***************************************************************************)
IsBlank(x) == x \in {"", " ", "\n"}

RECURSIVE LStrip(_)
LStrip(s) == IF s # <<>> /\ IsBlank(Head(s)) THEN LStrip(Tail(s)) ELSE s

RECURSIVE RStrip(_)
RStrip(s) ==
    IF s # <<>> /\ IsBlank(s[Len(s)]) THEN RStrip(SubSeq(s, 1, Len(s) - 1))
    ELSE s

Strip(s) == RStrip(LStrip(s))

\* str.split(): the words, whitespace dropped
Split(s) == SelectSeq(s, LAMBDA x : ~IsBlank(x))

(***************************************************************************)
(* datetime.strptime(text, "%a %b %d, %Y") on the first four tokens.       *)
(***************************************************************************)
Weekdays == {"Mon", "Tue", "Wed", "Thu", "Fri", "Sat", "Sun"}
MonthNum == ("Jan" :> 1) @@ ("Feb" :> 2)
DayNum == ("5," :> 5) @@ ("31," :> 31)
YearNum == ("2024" :> 2024)
DaysIn(m, y) == IF m = 2 THEN (IF y % 4 = 0 /\ (y % 100 # 0 \/ y % 400 = 0) THEN 29 ELSE 28)
                ELSE 31

FirstFour(tokens) == SubSeq(tokens, 1, IF Len(tokens) < 4 THEN Len(tokens) ELSE 4)

strptime(tokens) ==
    IF /\ Len(tokens) = 4
       /\ tokens[1] \in Weekdays
       /\ tokens[2] \in DOMAIN MonthNum
       /\ tokens[3] \in DOMAIN DayNum
       /\ tokens[4] \in DOMAIN YearNum
       /\ DayNum[tokens[3]] <= DaysIn(MonthNum[tokens[2]], YearNum[tokens[4]])
    THEN Ret([year |-> YearNum[tokens[4]], month |-> MonthNum[tokens[2]],
              day |-> DayNum[tokens[3]]])
    ELSE Raise("ValueError")

(***************************************************************************)
(* Parsed pages.  A detail page (curr_event_soup) has an optional          *)
(* panel-title element, an optional shifts table and an optional           *)
(* requirements section; a table row carries its tabindex attribute, an    *)
(* optional first cell and that cell's text as pieces.                     *)
(***************************************************************************)
Row(tab0, hasTd, pieces) == [tabindex0 |-> tab0, td |-> hasTd, text |-> pieces]
HeaderRow == Row(FALSE, TRUE, <<"Date">>)
NoCellRow == Row(TRUE, FALSE, <<>>)
GoodRow == Row(TRUE, TRUE, <<"Mon", " ", "Jan", " ", "5,", " ", "2024", "\n", "extra", " ", "text">>)
BadDayRow == Row(TRUE, TRUE, <<"Tue", " ", "Feb", " ", "31,", " ", "2024">>)
MalformedRow == Row(TRUE, TRUE, <<"TBD">>)
Rows == {HeaderRow, NoCellRow, GoodRow, BadDayRow, MalformedRow}

NoTable == [present |-> FALSE, rows |-> <<>>]
Table(rows) == [present |-> TRUE, rows |-> rows]
Tables == {NoTable} \cup {Table(r) : r \in SeqsUpTo(Rows, MaxRows)}

PhraseLines == {"18 and older", "Must be 16 and older to serve"}
Lines == {"", "Age Requirement"} \cup PhraseLines
NoSection == [section |-> FALSE, tbody |-> FALSE, lines |-> <<>>]
NoTbody == [section |-> TRUE, tbody |-> FALSE, lines |-> <<>>]
Req(lines) == [section |-> TRUE, tbody |-> TRUE, lines |-> lines]
Reqs == {NoSection, NoTbody} \cup {Req(l) : l \in SeqsUpTo(Lines, MaxLines)}

NoTitle == [present |-> FALSE, text |-> <<>>]
Title(pieces) == [present |-> TRUE, text |-> pieces]
Soup(t, tb, rq) == [title |-> t, table |-> tb, req |-> rq]
NoSoup == Soup(NoTitle, NoTable, NoSection)

(***************************************************************************)
(* The four field extractors, as functions of the parsed page.             *)
(***************************************************************************)
get_event_title(soup) ==
    IF ~soup.title.present THEN Raise("AttributeError")
    ELSE Ret(Strip(soup.title.text))

RECURSIVE ShiftsLoop(_, _)
\* the for loop of get_event_dates over the rows still to visit
ShiftsLoop(rows, shifts) ==
    IF rows = <<>> THEN Ret(List(shifts))
    ELSE IF ~Head(rows).td THEN Ret(Str("Ongoing"))
    ELSE LET d == strptime(FirstFour(Split(Head(rows).text)))
         IN IF ~d.ok THEN Raise(d.exc)
            ELSE ShiftsLoop(Tail(rows), Append(shifts, d.val))

\* get_event_dates without the except clause
get_event_dates_uncaught(soup) ==
    IF ~soup.table.present THEN Raise("AttributeError")
    ELSE ShiftsLoop(SelectSeq(soup.table.rows, LAMBDA r : r.tabindex0), <<>>)

get_event_dates(soup) ==
    IF ~soup.table.present THEN Ret(Str("Ongoing"))
    ELSE ShiftsLoop(SelectSeq(soup.table.rows, LAMBDA r : r.tabindex0), <<>>)

HasPhrase(lines) == \E i \in 1..Len(lines) : lines[i] \in PhraseLines

get_age_restriction(soup) ==
    IF ~soup.req.section \/ ~soup.req.tbody THEN Raise("AttributeError")
    ELSE LET text_body == Strip(soup.req.lines)
         IN IF HasPhrase(text_body)
            THEN (IF Len(text_body) >= 2 THEN Ret(Str(text_body[2]))
                  ELSE Raise("IndexError"))
            ELSE Ret(None)

\* The info page reached by '.more-info': an optional .location fragment
\* holding an optional td.text cell.
Info(loc, cell, pieces) == [location |-> loc, cell |-> cell, text |-> pieces]
\* lines 207-210 of get_event_address, on the info page read
parse_address(info) ==
    IF ~info.location THEN Raise("TimeoutError")
    ELSE IF ~info.cell THEN Raise("AttributeError")
    ELSE Ret(Split(Strip(info.text)))

(***************************************************************************)
(* The site.  Panel page k is served at '/need/index/<(k-1)*12>' and,      *)
(* unless it is the last one, offers a link to the following page.  A card *)
(* is the href of its event; the detail page of an event carries the       *)
(* event's title.                                                          *)
(***************************************************************************)
Sites ==
    {s \in UNION {[n : {k}, cards : [1..k -> SeqsUpTo(EventIds, MaxCards)]] : k \in 1..MaxPages} :
        SumLen(s.cards, s.n) <= MaxEvents}

PanelHref(k) == (k - 1) * NextPageIndex
\* the panel page a link with page index h leads to
PanelOfHref(h) == (h \div NextPageIndex) + 1
Anchors(s, k) == IF k < s.n THEN {PanelHref(k + 1)} ELSE {}

TitleOf(e) ==
    IF e = 1 THEN <<"\n", "Serve", " ", "Lunch", "\n">> ELSE <<"Sort", " ", "Clothes">>

AgeText == <<"Age Requirement", "18 and older">>
SiteContents ==
    { <<Table(<<HeaderRow, GoodRow>>), Req(AgeText)>>,
      <<NoTable, Req(<<"Age Requirement">>)>>,
      <<Table(<<HeaderRow>>), Req(<<>>)>>,
      <<Table(<<MalformedRow>>), Req(AgeText)>>,
      <<NoTable, NoSection>>,
      <<NoTable, Req(<<"18 and older">>)>> }
SiteDetails(e) ==
    {Soup(Title(TitleOf(e)), c[1], c[2]) : c \in SiteContents}
        \cup {Soup(NoTitle, NoTable, Req(AgeText))}
SiteInfos ==
    { Info(FALSE, FALSE, <<>>), Info(TRUE, FALSE, <<>>),
      Info(TRUE, TRUE, <<"\n", " ", "1835", " ", "Young", "\n", "Dallas", " ">>) }

(***************************************************************************)
(* Browser pages and history.                                              *)
(***************************************************************************)
Page(kind, id) == [kind |-> kind, id |-> id]
\* the pages reached by the four clicks of go_to_events_page
MenuPath == <<Page("menu", 1), Page("menu", 2), Page("menu", 3), Page("panel", 1)>>
Current == history[Len(history)]
\* go_back left out
GoBack_omitted(h) == h

\* page.go_back(): one step back in the history, if there is one
GoBack(h) == IF Len(h) > 1 THEN SubSeq(h, 1, Len(h) - 1) ELSE h

NoPanel == [page |-> 0, cards |-> <<>>, anchors |-> {}]
NoError == [exc |-> "", in |-> ""]
NoDict == [Title |-> <<>>, Date |-> None, Address |-> <<>>, AgeRestriction |-> None]
NoValue == [given |-> FALSE, list |-> <<>>]

\* an exception leaves the frame of fn and propagates out of scrape_website
RaiseIn(e, fn) == pc' = "unwind" /\ error' = [exc |-> e, in |-> fn]

Init ==
    /\ site \in Sites
    /\ pc = "start"
    /\ browser = "none"
    /\ history = <<>>
    /\ events_data = <<>>
    /\ curr_event_dict = NoDict
    /\ curr_event_soup = NoSoup
    /\ events_panel_soup = NoPanel
    /\ events = <<>>
    /\ idx = 1
    /\ partial = NoDict
    /\ error = NoError
    /\ returned = NoValue
    /\ panelsScraped = <<>>
    /\ fnOut = Ret(None)

\* scrape_website enters the with block and calls launch_browser
launch_browser ==
    /\ pc = "start"
    /\ \E outcome \in {"ok", "launch fails", "goto fails"} :
         /\ browser' = IF outcome = "launch fails" THEN "none" ELSE "open"
         /\ history' = IF outcome = "launch fails" THEN <<>> ELSE <<Page("home", 0)>>
         /\ IF outcome = "ok" THEN pc' = "menu" /\ error' = error
            ELSE RaiseIn("Error", "launch_browser")
    /\ UNCHANGED <<site, events_data, curr_event_dict, curr_event_soup,
                   events_panel_soup, events, idx, partial, returned,
                   panelsScraped, fnOut>>

\* four clicks; the first absent button raises
go_to_events_page ==
    /\ pc = "menu"
    /\ \E clicked \in 0..Len(MenuPath) :
         /\ history' = history \o SubSeq(MenuPath, 1, clicked)
         /\ IF clicked = Len(MenuPath) THEN pc' = "panel" /\ error' = error
            ELSE RaiseIn("TimeoutError", "go_to_events_page")
    /\ UNCHANGED <<site, browser, events_data, curr_event_dict, curr_event_soup,
                   events_panel_soup, events, idx, partial, returned,
                   panelsScraped, fnOut>>

\* scrape_events_panel up to the for loop: reads and parses the panel shown
scrape_events_panel ==
    /\ pc = "panel"
    /\ IF Current.kind = "panel"
       THEN /\ events_panel_soup' = [page |-> Current.id,
                                     cards |-> site.cards[Current.id],
                                     anchors |-> Anchors(site, Current.id)]
            /\ events' = site.cards[Current.id]
            /\ idx' = 1
            /\ panelsScraped' = Append(panelsScraped, Current.id)
            /\ pc' = "loop"
            /\ error' = error
       ELSE /\ RaiseIn("TimeoutError", "scrape_events_panel")
            /\ UNCHANGED <<events_panel_soup, events, idx, panelsScraped>>
    /\ UNCHANGED <<site, browser, history, events_data, curr_event_dict,
                   curr_event_soup, partial, returned, fnOut>>

\* scrape_event, lines 253-260: click the card, read the detail page,
\* evaluate the 'Title' and 'Date' entries of the dict display
open_event ==
    /\ pc = "loop"
    /\ idx <= Len(events)
    /\ LET e == events[idx]
           shown == /\ Current.kind = "panel"
                    /\ \E i \in 1..Len(site.cards[Current.id]) : site.cards[Current.id][i] = e
       IN \E soup \in SiteDetails(e), loads \in BOOLEAN :
            IF ~shown \/ ~loads
            THEN /\ RaiseIn("TimeoutError", "scrape_event")
                 /\ UNCHANGED <<history, curr_event_soup, partial>>
            ELSE /\ history' = Append(history, Page("detail", e))
                 /\ curr_event_soup' = soup
                 /\ LET t == get_event_title(soup)
                        d == get_event_dates(soup)
                    IN IF ~t.ok
                       THEN RaiseIn(t.exc, "get_event_title") /\ partial' = partial
                       ELSE IF ~d.ok
                       THEN RaiseIn(d.exc, "get_event_dates") /\ partial' = partial
                       ELSE /\ partial' = [NoDict EXCEPT !.Title = t.val, !.Date = d.val]
                            /\ pc' = "more_info"
                            /\ error' = error
    /\ UNCHANGED <<site, browser, events_data, curr_event_dict, events_panel_soup,
                   events, idx, returned, panelsScraped, fnOut>>

\* get_event_address, line 206: the click that leads to the info page
click_more_info ==
    /\ pc = "more_info"
    /\ \E loads \in BOOLEAN :
         IF loads
         THEN /\ history' = Append(history, Page("info", Current.id))
              /\ pc' = "location"
              /\ error' = error
         ELSE /\ RaiseIn("TimeoutError", "get_event_address")
              /\ history' = history
    /\ UNCHANGED <<site, browser, events_data, curr_event_dict, curr_event_soup,
                   events_panel_soup, events, idx, partial, returned,
                   panelsScraped, fnOut>>

\* get_event_address, lines 207-212: read the location, go back, return
read_address ==
    /\ pc = "location"
    /\ \E info \in SiteInfos :
         LET a == parse_address(info)
         IN IF ~a.ok
            THEN /\ RaiseIn(a.exc, "get_event_address")
                 /\ UNCHANGED <<history, partial>>
            ELSE /\ history' = GoBack(history)
                 /\ partial' = [partial EXCEPT !.Address = a.val]
                 /\ pc' = "age"
                 /\ error' = error
    /\ UNCHANGED <<site, browser, events_data, curr_event_dict, curr_event_soup,
                   events_panel_soup, events, idx, returned, panelsScraped, fnOut>>

\* finish_event appending only a title not yet in events_data
finish_event_dedup ==
    /\ pc = "age"
    /\ LET r == get_age_restriction(curr_event_soup)
       IN IF ~r.ok
          THEN /\ RaiseIn(r.exc, "get_age_restriction")
               /\ UNCHANGED <<history, curr_event_dict, events_data, idx>>
          ELSE /\ curr_event_dict' = [partial EXCEPT !.AgeRestriction = r.val]
               /\ history' = GoBack(history)
               /\ events_data' =
                    IF \E i \in 1..Len(events_data) : events_data[i].Title = partial.Title
                    THEN events_data
                    ELSE Append(events_data, curr_event_dict')
               /\ idx' = idx + 1
               /\ pc' = "loop"
               /\ error' = error
    /\ UNCHANGED <<site, browser, curr_event_soup, events_panel_soup, events,
                   partial, returned, panelsScraped, fnOut>>

\* scrape_event, lines 262-265: the 'Age Restriction' entry, the assignment
\* of curr_event_dict, go_back and append; then the for loop moves on
finish_event ==
    /\ pc = "age"
    /\ LET r == get_age_restriction(curr_event_soup)
       IN IF ~r.ok
          THEN /\ RaiseIn(r.exc, "get_age_restriction")
               /\ UNCHANGED <<history, curr_event_dict, events_data, idx>>
          ELSE /\ curr_event_dict' = [partial EXCEPT !.AgeRestriction = r.val]
               /\ history' = GoBack(history)
               /\ events_data' = Append(events_data, curr_event_dict')
               /\ idx' = idx + 1
               /\ pc' = "loop"
               /\ error' = error
    /\ UNCHANGED <<site, browser, curr_event_soup, events_panel_soup, events,
                   partial, returned, panelsScraped, fnOut>>

\* next_page_exists looking for the link of the page after the next
next_page_exists_wrong_index == (2 * NextPageIndex) \in events_panel_soup.anchors

\* the link looked for in the parsed panel
next_page_exists == NextPageIndex \in events_panel_soup.anchors

\* scrape_website, lines 327-330, once the for loop is exhausted
next_page ==
    /\ pc = "loop"
    /\ idx > Len(events)
    /\ IF next_page_exists
       THEN \E loads \in BOOLEAN :
              IF /\ loads
                 /\ Current.kind = "panel"
                 /\ NextPageIndex \in Anchors(site, Current.id)
              THEN /\ history' = Append(history, Page("panel", PanelOfHref(NextPageIndex)))
                   /\ pc' = "panel"
                   /\ error' = error
              ELSE /\ RaiseIn("TimeoutError", "scrape_website")
                   /\ history' = history
       ELSE /\ pc' = "exit"
            /\ UNCHANGED <<history, error>>
    /\ UNCHANGED <<site, browser, events_data, curr_event_dict, curr_event_soup,
                   events_panel_soup, events, idx, partial, returned,
                   panelsScraped, fnOut>>

\* with_exit closing the session on the normal path only
with_exit_leaks_on_error ==
    /\ pc \in {"exit", "unwind"}
    /\ browser' = IF browser = "open" /\ pc = "exit" THEN "closed" ELSE browser
    /\ IF pc = "exit"
       THEN pc' = "returned" /\ returned' = [given |-> TRUE, list |-> events_data]
       ELSE pc' = "raised" /\ returned' = returned
    /\ UNCHANGED <<site, history, events_data, curr_event_dict, curr_event_soup,
                   events_panel_soup, events, idx, partial, error,
                   panelsScraped, fnOut>>

\* with_exit returning events_data on the error path as well
with_exit_returns_partial ==
    /\ pc \in {"exit", "unwind"}
    /\ browser' = IF browser = "open" THEN "closed" ELSE browser
    /\ pc' = IF pc = "exit" THEN "returned" ELSE "raised"
    /\ returned' = [given |-> TRUE, list |-> events_data]
    /\ UNCHANGED <<site, history, events_data, curr_event_dict, curr_event_soup,
                   events_panel_soup, events, idx, partial, error,
                   panelsScraped, fnOut>>

\* the end of the with block (the context manager's __exit__) and, on the
\* normal path, the return statement
with_exit ==
    /\ pc \in {"exit", "unwind"}
    /\ browser' = IF browser = "open" THEN "closed" ELSE browser
    /\ IF pc = "exit"
       THEN pc' = "returned" /\ returned' = [given |-> TRUE, list |-> events_data]
       ELSE pc' = "raised" /\ returned' = returned
    /\ UNCHANGED <<site, history, events_data, curr_event_dict, curr_event_soup,
                   events_panel_soup, events, idx, partial, error,
                   panelsScraped, fnOut>>

Next ==
    \/ launch_browser
    \/ go_to_events_page
    \/ scrape_events_panel
    \/ open_event
    \/ click_more_info
    \/ read_address
    \/ finish_event
    \/ next_page
    \/ with_exit

Spec == Init /\ [][Next]_vars

(***************************************************************************)
(* The extractors on their own: a parsed detail page drawn from the        *)
(* bounded tables and requirements texts, and one call of get_event_dates  *)
(* or of get_age_restriction on it.                                        *)
(***************************************************************************)
FnSoups == {Soup(Title(TitleOf(1)), tb, rq) : tb \in Tables, rq \in Reqs}

InitFn ==
    /\ site = [n |-> 1, cards |-> [k \in 1..1 |-> <<>>]]
    /\ pc = "fn"
    /\ browser = "none"
    /\ history = <<>>
    /\ events_data = <<>>
    /\ curr_event_dict = NoDict
    /\ curr_event_soup \in FnSoups
    /\ events_panel_soup = NoPanel
    /\ events = <<>>
    /\ idx = 1
    /\ partial = NoDict
    /\ error = NoError
    /\ returned = NoValue
    /\ panelsScraped = <<>>
    /\ fnOut = Ret(None)

call_get_event_dates ==
    /\ pc = "fn"
    /\ fnOut' = get_event_dates(curr_event_soup)
    /\ pc' = "fn_dates"
    /\ UNCHANGED <<site, browser, history, events_data, curr_event_dict,
                   curr_event_soup, events_panel_soup, events, idx, partial,
                   error, returned, panelsScraped>>

call_get_age_restriction ==
    /\ pc = "fn"
    /\ fnOut' = get_age_restriction(curr_event_soup)
    /\ pc' = "fn_age"
    /\ UNCHANGED <<site, browser, history, events_data, curr_event_dict,
                   curr_event_soup, events_panel_soup, events, idx, partial,
                   error, returned, panelsScraped>>

NextFn ==
    \/ call_get_event_dates
    \/ call_get_age_restriction

SpecFn == InitFn /\ [][NextFn]_vars

(***************************************************************************)
(* Properties.                                                             *)
(***************************************************************************)
\* every panel page but the last offers a link to the page that follows it
ChainedPanel == \A k \in 1..(site.n - 1) : PanelHref(k + 1) \in Anchors(site, k)
\* panel page 1 has the link '/need/index/12', panel page 2 exists and has not
TwoPageScenario ==
    /\ site.n >= 2
    /\ NextPageIndex \in Anchors(site, 1)
    /\ NextPageIndex \notin Anchors(site, 2)
\* the titles of the detail pages behind a sequence of cards
TitlesOf(cards) == [i \in 1..Len(cards) |-> Strip(TitleOf(cards[i]))]
TitlesIn(records) == [i \in 1..Len(records) |-> records[i].Title]
\* the cards enumerated so far, over all scrape_events_panel calls
Enumerated == ConcatPages(site.cards, panelsScraped)
\* how many of them scrape_event has completed
Completed == Len(Enumerated) - Len(events) + (idx - 1)
ExtractorNames == {"get_event_title", "get_event_dates", "get_event_address",
                   "get_age_restriction"}

\* C1: in the two-page scenario (page 1 has the next-page link, page 2 has
\* not) the panel pages scraped are page 1 and then page 2, each once, never
\* another, and the run that returns has scraped exactly these two.
C1_TwoPanelPages ==
    TwoPageScenario =>
        /\ IsPrefix(panelsScraped, <<1, 2>>)
        /\ pc = "returned" => panelsScraped = <<1, 2>>
C1_Witness ==
    /\ TwoPageScenario
    /\ pc = "returned"
    /\ Len(site.cards[1]) >= 1
    /\ Len(site.cards[2]) >= 1

\* C2: on a panel of N pages, each but the last linking to the next, the run
\* that returns has scraped pages 1..N, each once and in page order.
C2_AllPagesScraped ==
    (ChainedPanel /\ pc = "returned") => panelsScraped = [k \in 1..site.n |-> k]

\* C3: every record of events_data has a non-empty Title and Address, a Date
\* that is "Ongoing" or a non-empty list, and an Age Restriction that is None
\* or a non-empty phrase.
RecordOk(r) ==
    /\ r.Title # <<>>
    /\ r.Address # <<>>
    /\ r.Date = Str("Ongoing") \/ (r.Date.tag = "list" /\ r.Date.items # <<>>)
    /\ r.AgeRestriction = None \/ (r.AgeRestriction.tag = "str" /\ r.AgeRestriction.s # "")
C3_RecordInvariant == \A i \in 1..Len(events_data) : RecordOk(events_data[i])

\* C4: events_data holds one record per card whose scrape_event completed, in
\* the order the cards were enumerated (panel page visited, then position on
\* the page), duplicates included; the collection returned is events_data with
\* one record for every card enumerated.
C4_OneRecordPerCard ==
    /\ TitlesIn(events_data) = SubSeq(TitlesOf(Enumerated), 1, Completed)
    /\ pc = "returned" =>
         /\ returned = [given |-> TRUE, list |-> events_data]
         /\ Len(events_data) = Len(Enumerated)
C4_Witness ==
    /\ pc = "returned"
    /\ Len(panelsScraped) = 2
    /\ Len(returned.list) = 3
    /\ \E k \in 1..2 : Len(site.cards[k]) = 2 /\ site.cards[k][1] = site.cards[k][2]
    /\ \E i, j \in 1..3 : returned.list[i].Title # returned.list[j].Title

\* C5: once get_event_address has ended, by returning or by raising, the
\* browser shows the detail page of the event being scraped.
C5_BackOnDetailPage ==
    (pc = "age" \/ error.in = "get_event_address") =>
        Current = Page("detail", events[idx])

\* C6: when the run has ended, by return or by an exception, the browser
\* session is not open.
C6_SessionClosed == pc \in {"returned", "raised"} => browser # "open"
C6_Witness ==
    /\ pc = "raised"
    /\ browser = "closed"
    /\ error.in \in ExtractorNames
    /\ Len(events_data) >= 1

\* C7: once an exception is raised the run only unwinds (no retry, no skip to
\* the next event or page) and ends raised with that exception, and nothing is
\* returned to the caller.
C7_AllOrNothing ==
    /\ error # NoError => (pc \in {"unwind", "raised"} /\ ~returned.given)
    /\ pc = "raised" => error # NoError
C7_Witness ==
    /\ pc = "raised"
    /\ error.in \in ExtractorNames
    /\ Len(events_data) >= 1
    /\ idx <= Len(events)
    /\ ~returned.given

\* C8: get_event_dates on a detail page without a shifts table returns
\* "Ongoing" (no exception, no list).
C8_NoTableOngoing ==
    (pc = "fn_dates" /\ ~curr_event_soup.table.present) => fnOut = Ret(Str("Ongoing"))
C8_Witness ==
    /\ pc = "fn_dates"
    /\ ~curr_event_soup.table.present
    /\ fnOut.ok

\* C9: get_age_restriction on a requirements text returns the second line of
\* the text when the text contains "and older", wherever it does, and None
\* when it does not.
C9_SecondLine ==
    (pc = "fn_age" /\ curr_event_soup.req.section /\ curr_event_soup.req.tbody) =>
        LET text == Strip(curr_event_soup.req.lines)
        IN IF HasPhrase(text)
           THEN /\ fnOut.ok
                /\ fnOut.val.tag = "str"
                /\ Len(text) >= 2
                /\ fnOut.val.s = text[2]
           ELSE fnOut = Ret(None)

\* C10: whenever scrape_website is between two events of the for loop or at
\* the next-page check and click, the browser shows the panel page whose cards
\* the current scrape_events_panel call enumerated; inside scrape_event the
\* panel page lies right under the detail page in the history.
C10_BalancedNavigation ==
    /\ pc = "loop" => Current = Page("panel", events_panel_soup.page)
    /\ pc \in {"more_info", "age"} =>
         /\ Current = Page("detail", events[idx])
         /\ history[Len(history) - 1] = Page("panel", events_panel_soup.page)
C10_Witness ==
    /\ pc = "loop"
    /\ idx > Len(events)
    /\ Len(events) = 2
    /\ Len(panelsScraped) = 2

====
